---- MODULE Spec2Model ----
(***************************************************************************)
(* Model of DownloadPdfs.py, the Joplin city-council document scraper.     *)
(*                                                                         *)
(* Strings are sequences of tokens.  A token is a piece of text that the   *)
(* code never looks inside: "/" , "?" , a path word ("agenda", "ViewFile", *)
(* "docs"), a dot-extension (".pdf"), a query item ("packet=true"), a      *)
(* decimal digit ("0".."9"), the site origin.  Every string operation of   *)
(* the code (lower, startswith, endswith, in, split, Path.suffix, int,     *)
(* str, zfill) is an operator on token sequences.                          *)
(***************************************************************************)
EXTENDS Integers, Sequences, FiniteSets, TLC

(***************************************************************************)
(* Bounds of the model.                                                    *)
(***************************************************************************)
MaxLinks == 2       \* hyperlinks on a meeting page
MaxFailures == 2    \* transport failures in one behaviour
MaxRuns == 2        \* times the program is started on the same output root
NumChunks == 2      \* chunks in a complete response body

(***************************************************************************)
(* Program constants.                                                      *)
(***************************************************************************)
FirstYear == 2022   \* range(2022, 2026), line 258
StopYear == 2026
Years == FirstYear..(StopYear - 1)
DocumentedYears == {2023, 2024, 2025}  \* docstring line 3, comment line 258

BASE_URL == <<"https://www.joplinmo.org">>

Digits == <<"0", "1", "2", "3", "4", "5", "6", "7", "8", "9">>
IsDigit(t) == \E d \in 1..10 : Digits[d] = t
DigitValue(t) == (CHOOSE d \in 1..10 : Digits[d] = t) - 1

(***************************************************************************)
(* Generic string helpers.                                                 *)
(***************************************************************************)
Range(s) == {s[i] : i \in 1..Len(s)}

SeqsUpTo(S, n) == UNION {[1..k -> S] : k \in 0..n}

\* pat in s
Contains(s, pat) ==
    \E i \in 0..(Len(s) - Len(pat)) : \A j \in 1..Len(pat) : s[i + j] = pat[j]

\* str.lower() on one token, and on a string
LowerTok(t) ==
    CASE t = "Agenda" -> "agenda"
      [] t = "Minutes" -> "minutes"
      [] t = "Packet" -> "packet"
      [] t = "ViewFile" -> "viewfile"
      [] t = ".PDF" -> ".pdf"
      [] OTHER -> t

Lower(s) == [i \in 1..Len(s) |-> LowerTok(s[i])]

\* s.split("?")[0]
BeforeQuery(s) ==
    IF \E i \in 1..Len(s) : s[i] = "?"
    THEN SubSeq(s, 1, (CHOOSE i \in 1..Len(s) :
                          s[i] = "?" /\ \A j \in 1..(i - 1) : s[j] # "?") - 1)
    ELSE s

\* the part after the first "?", empty when there is none
QueryOf(s) == SubSeq(s, Len(BeforeQuery(s)) + 2, Len(s))

\* int(digits)
RECURSIVE ToInt(_)
ToInt(ds) ==
    IF ds = <<>> THEN 0
    ELSE 10 * ToInt(SubSeq(ds, 1, Len(ds) - 1)) + DigitValue(ds[Len(ds)])

\* str(n) for n >= 0
RECURSIVE Str(_)
Str(n) == IF n < 10 THEN <<Digits[n + 1]>>
          ELSE Str(n \div 10) \o <<Digits[(n % 10) + 1]>>

\* s.zfill(2)
ZFill2(ds) == IF Len(ds) < 2 THEN <<"0">> \o ds ELSE ds

(***************************************************************************)
(* absolute_url, lines 38-42.                                              *)
(***************************************************************************)
HttpTokens == {"https://www.joplinmo.org", "http://files.example.org", "httpdocs"}

\* the href returned as it is, relative or not
KeepHref(href) == href

absolute_url(href) ==
    IF Len(href) > 0 /\ href[1] \in HttpTokens
    THEN href
    ELSE BASE_URL \o (IF Len(href) > 0 /\ href[1] = "/" THEN href
                                                        ELSE <<"/">> \o href)

(***************************************************************************)
(* De-duplication loops, lines 54-60 and 172-178: keep the first           *)
(* occurrence of every value, in order.                                    *)
(***************************************************************************)
RECURSIVE UniqLoop(_, _, _, _)
UniqLoop(items, i, seen, uniq) ==
    IF i > Len(items) THEN uniq
    ELSE IF items[i] \notin seen
         THEN UniqLoop(items, i + 1, seen \cup {items[i]}, Append(uniq, items[i]))
         ELSE UniqLoop(items, i + 1, seen, uniq)

\* the de-duplication left out
KeepAll(items) == items

Uniq(items) == UniqLoop(items, 1, {}, <<>>)

(***************************************************************************)
(* extract_meeting_ids, lines 45-60.  A listing page is the sequence of    *)
(* the href values of its anchors, in document order.                      *)
(***************************************************************************)
MeetingPrefix == <<"/", "AgendaCenter", "/", "26", "/">>

RECURSIVE DigitRun(_, _)
DigitRun(s, i) ==
    IF i <= Len(s) /\ IsDigit(s[i]) THEN <<s[i]>> \o DigitRun(s, i + 1) ELSE <<>>

\* re.search(r"/AgendaCenter/26/(\d+)", href): the positions where it matches
MatchAt(href, i) ==
    /\ i + Len(MeetingPrefix) <= Len(href)
    /\ SubSeq(href, i, i + Len(MeetingPrefix) - 1) = MeetingPrefix
    /\ IsDigit(href[i + Len(MeetingPrefix)])

HasMeetingId(href) == \E i \in 1..Len(href) : MatchAt(href, i)

\* int(m.group(1)) of the leftmost match
MeetingIdOf(href) ==
    LET i == CHOOSE k \in 1..Len(href) :
                 MatchAt(href, k) /\ \A j \in 1..(k - 1) : ~MatchAt(href, j)
    IN ToInt(DigitRun(href, i + Len(MeetingPrefix)))

RECURSIVE CollectIds(_, _)
CollectIds(hrefs, i) ==
    IF i > Len(hrefs) THEN <<>>
    ELSE (IF HasMeetingId(hrefs[i]) THEN <<MeetingIdOf(hrefs[i])>> ELSE <<>>)
         \o CollectIds(hrefs, i + 1)

extract_meeting_ids(list_html) == Uniq(CollectIds(list_html, 1))

(***************************************************************************)
(* parse_meeting_date, lines 63-114.  A text fragment of a page is         *)
(* [month, day, year]: a word followed by two digit strings, as in         *)
(* "May 1, 2023"; the date pattern matches it when the word is a month     *)
(* name in any letter case, the day has one or two digits and the year has *)
(* at least four (the pattern takes the first four).                       *)
(***************************************************************************)
MonthNum ==
    [January |-> <<"0", "1">>, February |-> <<"0", "2">>, March |-> <<"0", "3">>,
     April |-> <<"0", "4">>, May |-> <<"0", "5">>, June |-> <<"0", "6">>,
     July |-> <<"0", "7">>, August |-> <<"0", "8">>, September |-> <<"0", "9">>,
     October |-> <<"1", "0">>, November |-> <<"1", "1">>, December |-> <<"1", "2">>]

\* str.capitalize() on a word
Capitalize(w) ==
    CASE w \in {"MAY", "may"} -> "May"
      [] w \in {"DECEMBER", "december"} -> "December"
      [] OTHER -> w

DateMatches(txt) ==
    /\ Capitalize(txt.month) \in DOMAIN MonthNum
    /\ Len(txt.day) \in 1..2
    /\ Len(txt.year) >= 4

\* possible_texts: the tag texts in document order, then the title
PossibleTexts(page_html) == page_html.tags \o page_html.title

parse_meeting_date(page_html) ==
    LET texts == PossibleTexts(page_html) IN
    IF \E i \in 1..Len(texts) : DateMatches(texts[i])
    THEN LET i == CHOOSE k \in 1..Len(texts) :
                      DateMatches(texts[k]) /\ \A j \in 1..(k - 1) : ~DateMatches(texts[j])
             m == texts[i]
         IN MonthNum[Capitalize(m.month)] \o ZFill2(m.day) \o SubSeq(m.year, 1, 4)
    ELSE <<>>

(***************************************************************************)
(* extract_file_links, lines 117-178.                                      *)
(***************************************************************************)
EXTENSIONS == {".pdf", ".zip", ".doc", ".docx", ".xls", ".xlsx", ".ppt", ".pptx"}

EndsWithExtension(s) == Len(s) > 0 /\ s[Len(s)] \in EXTENSIONS

Seg(w) == <<"/", w, "/">>
ViewSeg(w) == <<"/", "viewfile", "/", w, "/">>

\* the type given to one absolute URL, "discard" when it is not kept
\* (lines 135-165)
ClassifyUrl(url) ==
    LET low == Lower(url)
        clean_path == BeforeQuery(low)
    IN IF EndsWithExtension(low)
       THEN (IF Contains(low, Seg("agenda")) \/ Contains(low, ViewSeg("agenda"))
             THEN "agenda"
             ELSE IF Contains(low, Seg("minutes")) \/ Contains(low, ViewSeg("minutes"))
             THEN "minutes"
             ELSE IF Contains(low, Seg("packet")) \/ Contains(low, ViewSeg("packet"))
             THEN "packet"
             ELSE "other")
       ELSE IF Contains(clean_path, ViewSeg("agenda"))
       THEN (IF "packet=true" \in Range(low) THEN "packet" ELSE "agenda")
       ELSE IF Contains(clean_path, ViewSeg("minutes")) THEN "minutes"
       ELSE IF Contains(clean_path, ViewSeg("packet")) THEN "packet"
       ELSE "discard"

\* the files list built by the loop of lines 128-165
RECURSIVE CollectFiles(_, _)
CollectFiles(hrefs, i) ==
    IF i > Len(hrefs) THEN <<>>
    ELSE LET url == absolute_url(hrefs[i])
             ftype == ClassifyUrl(url)
         IN (IF ftype = "discard" THEN <<>> ELSE << <<url, ftype>> >>)
            \o CollectFiles(hrefs, i + 1)

extract_file_links(page_html) == Uniq(CollectFiles(page_html.links, 1))

(***************************************************************************)
(* build_filename, lines 192-204.  Path(url).suffix: the last component    *)
(* of the path (trailing slashes dropped), from its last dot on, empty     *)
(* when the component has no dot or only a leading one.                    *)
(***************************************************************************)
IsDotToken(t) == t \in EXTENSIONS \cup {".PDF", ".html"}

RECURSIVE StripSlashes(_)
StripSlashes(s) ==
    IF Len(s) > 0 /\ s[Len(s)] = "/" THEN StripSlashes(SubSeq(s, 1, Len(s) - 1)) ELSE s

LastComponent(s) ==
    LET t == StripSlashes(s) IN
    IF \E i \in 1..Len(t) : t[i] = "/"
    THEN SubSeq(t, (CHOOSE i \in 1..Len(t) :
                       t[i] = "/" /\ \A j \in (i + 1)..Len(t) : t[j] # "/") + 1, Len(t))
    ELSE t

Suffix(url) ==
    LET name == LastComponent(url) IN
    IF \E i \in 2..Len(name) : IsDotToken(name[i])
    THEN SubSeq(name, CHOOSE i \in 2..Len(name) :
                    IsDotToken(name[i]) /\ \A j \in (i + 1)..Len(name) : ~IsDotToken(name[j]),
                Len(name))
    ELSE <<>>

build_filename(date_str, ftype, url) ==
    LET ext == IF Suffix(url) = <<>> THEN <<".pdf">> ELSE Suffix(url)
    IN date_str \o <<"_", ftype>> \o ext

(***************************************************************************)
(* URLs requested by scrape_year, lines 28, 210 and 222.                   *)
(***************************************************************************)
ListUrl(year) ==
    BASE_URL \o <<"/", "AgendaCenter", "/", "City-Council-26", "?", "MOBILE=ON", "&", "year=">>
             \o Str(year)

MeetingUrl(meeting_id, year) ==
    BASE_URL \o MeetingPrefix \o Str(meeting_id) \o <<"?", "MOBILE=ON", "&", "year=">>
             \o Str(year)

\* line 234 written without the f prefix
FallbackLiteral(meeting_id) == <<"id{meeting_id}">>

\* the fallback identifier of line 234: f"id{meeting_id}"
FallbackDate(meeting_id) == <<"id">> \o Str(meeting_id)

(***************************************************************************)
(* The response body of a file URL, and writes to an open file.            *)
(***************************************************************************)
Chunk(url, k) == [url |-> url, k |-> k]
Hole == [url |-> <<>>, k |-> 0]
Body(url) == [k \in 1..NumChunks |-> Chunk(url, k)]

\* f.write(chunk) at file position pos (bytes skipped past the end read as zero)
WriteAt(content, pos, chunk) ==
    IF pos < Len(content)
    THEN [content EXCEPT ![pos + 1] = chunk]
    ELSE content \o [i \in 1..(pos - Len(content)) |-> Hole] \o <<chunk>>

(***************************************************************************)
(* State.                                                                  *)
(*   root          the output root each running instance writes under      *)
(*   listing       the site: year -> hrefs of the yearly listing page      *)
(*   pages         the site: meeting id -> meeting page                    *)
(*   fs, dirs      the local file system: path -> content, directories     *)
(*   failures      transport failures so far                               *)
(*   runs          how often each instance has been started                *)
(*   pc            each instance's position in main / scrape_year /        *)
(*                 download                                                *)
(*   yr .. pos     the locals of main, scrape_year and download            *)
(*   scraped       history: the years scrape_year was called with, this run*)
(*   requests      history: requests and sleeps of the current year run    *)
(*   results       history: what became of each file link, this run        *)
(***************************************************************************)
VARIABLES root, listing, pages, fs, dirs, failures, runs,
          pc, yr, meeting_ids, mi, date_str, file_links, fi, resp, pos,
          scraped, requests, results

site == <<root, listing, pages>>
locals == <<yr, meeting_ids, mi, date_str, file_links, fi, resp, pos>>
vars == <<root, listing, pages, fs, dirs, failures, runs,
          pc, yr, meeting_ids, mi, date_str, file_links, fi, resp, pos,
          scraped, requests, results>>

Procs == DOMAIN root

\* transport outcomes: -1 the request fails before a body arrives (network
\* error, timeout, raise_for_status); k in 0..NumChunks-1 the body breaks
\* off after k chunks; NumChunks the whole body arrives
Failed == -1
Complete == NumChunks
Outcomes == Failed..Complete

MayHappen(o) == o = Complete \/ failures < MaxFailures
Count(o) == IF o = Complete THEN failures ELSE failures + 1

Event(op, url) == [op |-> op, url |-> url]

\* the link the file loop is at, and its destination (lines 240-242)
CurLink(p) == file_links[p][fi[p]]
CurMeeting(p) == meeting_ids[p][mi[p]]
Dst(p) == <<root[p], yr[p], build_filename(date_str[p], CurLink(p)[2], CurLink(p)[1])>>
\* the existence check of line 244 left out
NeverExists(path) == FALSE

\* dst.exists(), line 244
Exists(path) == path \in DOMAIN fs

\* what became of the current link: saved, skipped or failed, with the
\* transport outcome of its download request (NoRequest when none was made)
NoRequest == Failed - 1
Result(p, out, net) ==
    [meeting |-> CurMeeting(p), i |-> fi[p], url |-> CurLink(p)[1],
     dst |-> Dst(p), out |-> out, net |-> net]

(***************************************************************************)
(* main, lines 256-259: the loop head.                                     *)
(***************************************************************************)
main(p) ==
    /\ pc[p] = "main"
    /\ IF yr[p] < StopYear
       THEN /\ pc' = [pc EXCEPT ![p] = "fetch_list"]
            /\ scraped' = [scraped EXCEPT ![p] = Append(@, yr[p])]
            /\ requests' = [requests EXCEPT ![p] = <<>>]
       ELSE /\ pc' = [pc EXCEPT ![p] = "done"]
            /\ UNCHANGED <<scraped, requests>>
    /\ UNCHANGED <<site, fs, dirs, failures, runs, locals, results>>

(***************************************************************************)
(* scrape_year, lines 210-219: fetch the listing page.  An exception of    *)
(* fetch is caught neither here nor in main.                               *)
(***************************************************************************)
FetchList(p) ==
    /\ pc[p] = "fetch_list"
    /\ \E o \in {Failed, Complete} :
         /\ MayHappen(o)
         /\ failures' = Count(o)
         /\ requests' = [requests EXCEPT ![p] = Append(@, Event("fetch", ListUrl(yr[p])))]
         /\ IF o # Complete
            THEN /\ pc' = [pc EXCEPT ![p] = "crashed"]
                 /\ UNCHANGED <<yr, meeting_ids, mi, dirs>>
            ELSE LET ids == extract_meeting_ids(listing[yr[p]]) IN
                 IF ids = <<>>
                 THEN /\ pc' = [pc EXCEPT ![p] = "main"]
                      /\ yr' = [yr EXCEPT ![p] = @ + 1]
                      /\ UNCHANGED <<meeting_ids, mi, dirs>>
                 ELSE /\ pc' = [pc EXCEPT ![p] = "meeting"]
                      /\ meeting_ids' = [meeting_ids EXCEPT ![p] = ids]
                      /\ mi' = [mi EXCEPT ![p] = 1]
                      /\ dirs' = dirs \cup {<<root[p], yr[p]>>}
                      /\ UNCHANGED yr
    /\ UNCHANGED <<site, fs, runs, date_str, file_links, fi, resp, pos, scraped, results>>

(***************************************************************************)
(* scrape_year, lines 221-238: the meeting loop.                           *)
(***************************************************************************)
Meeting(p) ==
    /\ pc[p] = "meeting"
    /\ IF mi[p] > Len(meeting_ids[p])
       THEN /\ pc' = [pc EXCEPT ![p] = "main"]
            /\ yr' = [yr EXCEPT ![p] = @ + 1]
            /\ UNCHANGED <<failures, requests, mi, date_str, file_links, fi>>
       ELSE \E o \in {Failed, Complete} :
            /\ MayHappen(o)
            /\ failures' = Count(o)
            /\ requests' = [requests EXCEPT ![p] =
                               Append(@, Event("fetch", MeetingUrl(CurMeeting(p), yr[p])))]
            /\ IF o # Complete
               THEN /\ mi' = [mi EXCEPT ![p] = @ + 1]
                    /\ UNCHANGED <<pc, date_str, file_links, fi>>
               ELSE LET meeting_html == pages[CurMeeting(p)]
                        parsed == parse_meeting_date(meeting_html)
                    IN /\ date_str' = [date_str EXCEPT ![p] =
                                          IF parsed = <<>> THEN FallbackDate(CurMeeting(p))
                                                           ELSE parsed]
                       /\ file_links' = [file_links EXCEPT ![p] =
                                            extract_file_links(meeting_html)]
                       /\ fi' = [fi EXCEPT ![p] = 1]
                       /\ pc' = [pc EXCEPT ![p] = "file"]
                       /\ UNCHANGED mi
            /\ UNCHANGED yr
    /\ UNCHANGED <<site, fs, dirs, runs, meeting_ids, resp, pos, scraped, results>>

(***************************************************************************)
(* scrape_year, lines 240-246: the file loop and the existence check.      *)
(***************************************************************************)
File(p) ==
    /\ pc[p] = "file"
    /\ IF fi[p] > Len(file_links[p])
       THEN /\ pc' = [pc EXCEPT ![p] = "meeting"]
            /\ mi' = [mi EXCEPT ![p] = @ + 1]
            /\ UNCHANGED <<fi, results>>
       ELSE IF Exists(Dst(p))
       THEN /\ fi' = [fi EXCEPT ![p] = @ + 1]
            /\ results' = [results EXCEPT ![p] = Append(@, Result(p, "skipped", NoRequest))]
            /\ UNCHANGED <<pc, mi>>
       ELSE /\ pc' = [pc EXCEPT ![p] = "get"]
            /\ UNCHANGED <<fi, mi, results>>
    /\ UNCHANGED <<site, fs, dirs, failures, runs, yr, meeting_ids, date_str,
                   file_links, resp, pos, scraped, requests>>

(***************************************************************************)
(* download, lines 183-185: mkdir, the GET and raise_for_status.  An       *)
(* exception lands in the handler of lines 252-253.                        *)
(***************************************************************************)
Get(p) ==
    /\ pc[p] = "get"
    /\ dirs' = dirs \cup {<<root[p], yr[p]>>}
    /\ \E o \in Outcomes :
         /\ MayHappen(o)
         /\ failures' = Count(o)
         /\ requests' = [requests EXCEPT ![p] = Append(@, Event("get", CurLink(p)[1]))]
         /\ IF o = Failed
            THEN /\ pc' = [pc EXCEPT ![p] = "file"]
                 /\ fi' = [fi EXCEPT ![p] = @ + 1]
                 /\ results' = [results EXCEPT ![p] = Append(@, Result(p, "failed", o))]
                 /\ UNCHANGED resp
            ELSE /\ pc' = [pc EXCEPT ![p] = "open"]
                 /\ resp' = [resp EXCEPT ![p] = o]
                 /\ UNCHANGED <<fi, results>>
    /\ UNCHANGED <<site, fs, runs, yr, meeting_ids, mi, date_str, file_links, pos, scraped>>

(***************************************************************************)
(* download, line 186: open(dst, "wb") creates or truncates the file.      *)
(***************************************************************************)
Open(p) ==
    /\ pc[p] = "open"
    /\ fs' = [path \in DOMAIN fs \cup {Dst(p)} |-> IF path = Dst(p) THEN <<>> ELSE fs[path]]
    /\ pos' = [pos EXCEPT ![p] = 0]
    /\ pc' = [pc EXCEPT ![p] = "stream"]
    /\ UNCHANGED <<site, dirs, failures, runs, yr, meeting_ids, mi, date_str, file_links,
                   fi, resp, scraped, requests, results>>

(***************************************************************************)
(* download, lines 187-189: one chunk per step; the stream ends with the   *)
(* body complete (download returns) or broken off (exception, handled at   *)
(* lines 252-253; the file stays as it is).                                *)
(***************************************************************************)
Stream(p) ==
    /\ pc[p] = "stream"
    /\ IF pos[p] < resp[p]
       THEN /\ fs' = [fs EXCEPT ![Dst(p)] =
                         WriteAt(@, pos[p], Chunk(CurLink(p)[1], pos[p] + 1))]
            /\ pos' = [pos EXCEPT ![p] = @ + 1]
            /\ UNCHANGED <<pc, fi, results>>
       ELSE IF resp[p] < Complete
       THEN /\ pc' = [pc EXCEPT ![p] = "file"]
            /\ fi' = [fi EXCEPT ![p] = @ + 1]
            /\ results' = [results EXCEPT ![p] = Append(@, Result(p, "failed", resp[p]))]
            /\ UNCHANGED <<fs, pos>>
       ELSE /\ pc' = [pc EXCEPT ![p] = "sleep"]
            /\ UNCHANGED <<fs, pos, fi, results>>
    /\ UNCHANGED <<site, dirs, failures, runs, yr, meeting_ids, mi, date_str, file_links,
                   resp, scraped, requests>>

(***************************************************************************)
(* scrape_year, lines 250-251: the politeness delay and the success log.   *)
(***************************************************************************)
Sleep(p) ==
    /\ pc[p] = "sleep"
    /\ requests' = [requests EXCEPT ![p] = Append(@, Event("sleep", <<>>))]
    /\ results' = [results EXCEPT ![p] = Append(@, Result(p, "saved", resp[p]))]
    /\ fi' = [fi EXCEPT ![p] = @ + 1]
    /\ pc' = [pc EXCEPT ![p] = "file"]
    /\ UNCHANGED <<site, fs, dirs, failures, runs, yr, meeting_ids, mi, date_str,
                   file_links, resp, pos, scraped>>

(***************************************************************************)
(* The program is started again on the same output root (line 262).        *)
(***************************************************************************)
Rerun(p) ==
    /\ pc[p] \in {"done", "crashed"}
    /\ runs[p] < MaxRuns
    /\ runs' = [runs EXCEPT ![p] = @ + 1]
    /\ pc' = [pc EXCEPT ![p] = "main"]
    /\ yr' = [yr EXCEPT ![p] = FirstYear]
    /\ meeting_ids' = [meeting_ids EXCEPT ![p] = <<>>]
    /\ mi' = [mi EXCEPT ![p] = 1]
    /\ date_str' = [date_str EXCEPT ![p] = <<>>]
    /\ file_links' = [file_links EXCEPT ![p] = <<>>]
    /\ fi' = [fi EXCEPT ![p] = 1]
    /\ resp' = [resp EXCEPT ![p] = Complete]
    /\ pos' = [pos EXCEPT ![p] = 0]
    /\ scraped' = [scraped EXCEPT ![p] = <<>>]
    /\ requests' = [requests EXCEPT ![p] = <<>>]
    /\ results' = [results EXCEPT ![p] = <<>>]
    /\ UNCHANGED <<site, fs, dirs, failures>>

NextOnce ==
    \/ \E p \in Procs : main(p)
    \/ \E p \in Procs : FetchList(p)
    \/ \E p \in Procs : Meeting(p)
    \/ \E p \in Procs : File(p)
    \/ \E p \in Procs : Get(p)
    \/ \E p \in Procs : Open(p)
    \/ \E p \in Procs : Stream(p)
    \/ \E p \in Procs : Sleep(p)

Next ==
    \/ NextOnce
    \/ \E p \in Procs : Rerun(p)

(***************************************************************************)
(* Inputs: the pages the site serves.                                      *)
(***************************************************************************)
M5 == MeetingPrefix \o <<"5">>
M05 == MeetingPrefix \o <<"0", "5">> \o <<"?", "MOBILE=ON">>
M51 == BASE_URL \o MeetingPrefix \o <<"5", "1">>
NoMeeting == <<"/", "AgendaCenter", "/", "ViewFile", "/", "Agenda", "/", "5">>
ListHrefPool == {M5, M05, M51, NoMeeting}
MaxListing == 3
ListingPool == SeqsUpTo(ListHrefPool, MaxListing)

MeetingIds == {5, 51}

HeadingText == [month |-> "Agenda", day |-> <<>>, year |-> <<>>]
May1 == [month |-> "May", day |-> <<"1">>, year |-> <<"2", "0", "2", "3">>]
MAY12 == [month |-> "MAY", day |-> <<"1", "2">>, year |-> <<"2", "0", "2", "3", "1">>]
BadDay == [month |-> "May", day |-> <<"1", "2", "3">>, year |-> <<"2", "0", "2", "3">>]
BadYear == [month |-> "december", day |-> <<"1">>, year |-> <<"2", "3">>]

\* the texts of a page: <<tags, title>>
Undated == <<HeadingText>>
TextPool == {<<Undated, <<>>>>, <<Undated, <<May1>>>>}
TextPoolWide == TextPool \cup {<<(<<HeadingText, MAY12>>), <<May1>>>>,
                               <<(<<BadDay, BadYear>>), <<>>>>,
                               <<(<<BadDay>>), <<MAY12>>>>}

DocA == <<"/", "docs", "/", "a", ".pdf">>
DocB == <<"docs", "/", "b", ".pdf">>
DocAAbs == BASE_URL \o DocA
ViewAgenda == <<"/", "AgendaCenter", "/", "ViewFile", "/", "Agenda", "/", "x">>
LinkPool == {DocA, DocB, ViewAgenda}

LinkPoolWide ==
    LinkPool \cup
    { DocAAbs,
      <<"/", "docs", "/", "a", ".pdf", "?", "v=1">>,
      <<"/", "Agenda", "/", "a", ".PDF">>,
      <<"/", "minutes", "/", "packet", "/", "m", ".docx">>,
      <<"/", "ViewFile", "/", "Packet", "/", "p", ".pdf">>,
      <<"/", "ViewFile", "/", "Agenda", "/", "x", "?", "packet=true">>,
      <<"/", "ViewFile", "/", "Agenda", "/", "x", "?", "packet=true", "&", "f=", ".pdf">>,
      <<"/", "ViewFile", "/", "Minutes", "/", "x">>,
      <<"http://files.example.org", "/", "ViewFile", "/", "Packet", "/", "x", "?", "v=1">>,
      <<"/", "docs", "/", "index", ".html">>,
      <<"httpdocs", "/", "a", ".pdf">>,
      <<"/", "docs", "?", "next=", "/", "viewfile", "/", "minutes", "/">> }

PagesOver(texts, links) ==
    {[tags |-> t[1], title |-> t[2], links |-> l] : t \in texts, l \in SeqsUpTo(links, MaxLinks)}

SimplePage == [tags |-> Undated, title |-> <<>>, links |-> <<DocA>>]

BusyYear == FirstYear + 1

\* one year of the site has meetings, the other listing pages are empty
ListingOf(busy, hrefs) == [y \in Years |-> IF y = busy THEN hrefs ELSE <<>>]

InitProcs(r, used) ==
    /\ root = r
    /\ fs = <<>>
    /\ dirs = {}
    /\ failures = used
    /\ runs = [p \in DOMAIN r |-> 1]
    /\ pc = [p \in DOMAIN r |-> "main"]
    /\ yr = [p \in DOMAIN r |-> FirstYear]
    /\ meeting_ids = [p \in DOMAIN r |-> <<>>]
    /\ mi = [p \in DOMAIN r |-> 1]
    /\ date_str = [p \in DOMAIN r |-> <<>>]
    /\ file_links = [p \in DOMAIN r |-> <<>>]
    /\ fi = [p \in DOMAIN r |-> 1]
    /\ resp = [p \in DOMAIN r |-> Complete]
    /\ pos = [p \in DOMAIN r |-> 0]
    /\ scraped = [p \in DOMAIN r |-> <<>>]
    /\ requests = [p \in DOMAIN r |-> <<>>]
    /\ results = [p \in DOMAIN r |-> <<>>]

OneInstance == [p \in {1} |-> "joplin_council_pdfs"]

\* one instance, started up to MaxRuns times; two meetings whose pages vary
Init ==
    /\ InitProcs(OneInstance, 0)
    /\ listing = ListingOf(BusyYear, <<M5, M51>>)
    /\ \E page \in PagesOver(TextPool, LinkPool), t \in TextPool :
         LET other == [tags |-> t[1], title |-> t[2], links |-> <<DocA>>] IN
         pages = [m \in MeetingIds |-> IF m = 5 THEN page ELSE other]

Spec == Init /\ [][Next]_vars

\* one instance, started up to MaxRuns times; the listing page varies
InitListing ==
    /\ InitProcs(OneInstance, 0)
    /\ \E hrefs \in ListingPool : listing = ListingOf(BusyYear, hrefs)
    /\ pages = [m \in MeetingIds |-> SimplePage]

SpecListing == InitListing /\ [][Next]_vars

\* one instance, one meeting, at most one transport failure; the page's
\* links or its texts vary widely
InitLinks ==
    /\ InitProcs(OneInstance, MaxFailures - 1)
    /\ listing = ListingOf(FirstYear, <<M5>>)
    /\ \E page \in PagesOver({<<Undated, <<>>>>}, LinkPoolWide)
                     \cup {[tags |-> t[1], title |-> t[2], links |-> <<DocA>>] :
                               t \in TextPoolWide} :
         pages = [m \in MeetingIds |-> page]

SpecLinks == InitLinks /\ [][NextOnce]_vars

\* two instances with an output root each, on the same site
InitPair ==
    /\ InitProcs([p \in {1, 2} |-> IF p = 1 THEN "out_a" ELSE "out_b"], 0)
    /\ listing = ListingOf(BusyYear, <<M5>>)
    /\ \E page \in PagesOver(TextPool, LinkPool) : pages = [m \in MeetingIds |-> page]

SpecPair == InitPair /\ [][NextOnce]_vars

\* two instances on the same output root and the same site
InitConc ==
    /\ InitProcs([p \in {1, 2} |-> "joplin_council_pdfs"], 0)
    /\ listing = ListingOf(BusyYear, <<M5>>)
    /\ \E page \in PagesOver(TextPool, {DocA, DocB}) : pages = [m \in MeetingIds |-> page]

SpecConc == InitConc /\ [][NextOnce]_vars

(***************************************************************************)
(* Helpers of the properties.                                              *)
(***************************************************************************)
Terminated(p) == pc[p] \in {"done", "crashed"}

NoDuplicates(s) == \A i, j \in 1..Len(s) : i # j => s[i] # s[j]

IsPrefix(s, t) == Len(s) <= Len(t) /\ SubSeq(t, 1, Len(s)) = s

FirstIndex(s, v) == CHOOSE i \in 1..Len(s) : s[i] = v /\ \A j \in 1..(i - 1) : s[j] # v

\* the distinct values of s in the order of their first occurrence
FirstSeen(s) ==
    CHOOSE e \in [1..Cardinality(Range(s)) -> Range(s)] :
        \A i, j \in DOMAIN e : i < j => FirstIndex(s, e[i]) < FirstIndex(s, e[j])

IsGet(e) == e.op = "get"
IsFetch(e) == e.op = "fetch"

\* the year of the year run p is in, or was in last
RunYear(p) == scraped[p][Len(scraped[p])]

\* the meeting-page requests of the current year run, in order
MeetingRequests(p) ==
    LET fetches == SelectSeq(requests[p], IsFetch)
    IN [i \in 1..(Len(fetches) - 1) |-> fetches[i + 1].url]

\* scrape_year has returned to main and main has not gone on yet
YearRunOver(p) == pc[p] = "main" /\ scraped[p] # <<>> /\ yr[p] = RunYear(p) + 1

(***************************************************************************)
(* C1: a failed fetch of one year's listing page aborts only that year:    *)
(* main still calls scrape_year for every later year of its range and the  *)
(* run does not abort.  Stated of a run that has stopped: it has not       *)
(* crashed and scrape_year was called for every year of the range.         *)
(***************************************************************************)
C1_ListingFailureAbortsOnlyThatYear ==
    \A p \in Procs :
        Terminated(p) =>
            /\ pc[p] = "done"
            /\ scraped[p] = [i \in 1..(StopYear - FirstYear) |-> FirstYear + i - 1]

(***************************************************************************)
(* C7: main scrapes exactly the years 2023, 2024 and 2025, one scrape_year *)
(* call per year in ascending order, and no other year.                    *)
(***************************************************************************)
C7_ScrapesDocumentedYearsOnly ==
    \A p \in Procs :
        /\ \A i \in 1..Len(scraped[p]) : scraped[p][i] \in DocumentedYears
        /\ pc[p] = "done" => scraped[p] = <<2023, 2024, 2025>>

(***************************************************************************)
(* C9: between any two consecutive download requests of a year run the     *)
(* orchestrator sleeps at least once, whether the earlier download         *)
(* succeeded or failed.                                                    *)
(***************************************************************************)
C9_SleepBetweenDownloads ==
    \A p \in Procs :
        \A i, j \in 1..Len(requests[p]) :
            (i < j /\ IsGet(requests[p][i]) /\ IsGet(requests[p][j]))
                => \E k \in (i + 1)..(j - 1) : requests[p][k].op = "sleep"

\* the meeting pages a run of that year has to request, in order
ExpectedMeetingRequests(year) ==
    LET ids == FirstSeen(CollectIds(listing[year], 1))
    IN [i \in 1..Len(ids) |-> MeetingUrl(ids[i], year)]

(***************************************************************************)
(* C4: in a year run whose listing fetch succeeds the meeting-page         *)
(* requests are exactly the distinct meeting ids linked from the listing   *)
(* page, in first-seen order, each requested once: at every moment the     *)
(* requests made so far are a prefix of that list, whatever failed, and    *)
(* when scrape_year returns they are the whole list.                       *)
(***************************************************************************)
C4_MeetingRequestsAreDistinctIdsInOrder ==
    \A p \in Procs :
        scraped[p] # <<>> =>
            /\ IsPrefix(MeetingRequests(p), ExpectedMeetingRequests(RunYear(p)))
            /\ YearRunOver(p) => MeetingRequests(p) = ExpectedMeetingRequests(RunYear(p))

\* a year run is over whose listing page linked a meeting twice: the first
\* meeting's page failed to load, the second meeting was requested all the
\* same, and its download failed
C4_Witness ==
    \E p \in Procs :
        /\ YearRunOver(p)
        /\ ~NoDuplicates(CollectIds(listing[RunYear(p)], 1))
        /\ Len(MeetingRequests(p)) = 2
        /\ failures = 2
        /\ Len(results[p]) = 1
        /\ results[p][1].out = "failed"
        /\ MeetingRequests(p)[2] = MeetingUrl(results[p][1].meeting, RunYear(p))

\* a download is streaming into the file
BeingWritten(path) == \E p \in Procs : pc[p] = "stream" /\ Dst(p) = path

\* the file loop is at a link whose destination exists
AtExistingDestination(p) ==
    /\ pc[p] = "file"
    /\ fi[p] <= Len(file_links[p])
    /\ Dst(p) \in DOMAIN fs

(***************************************************************************)
(* C2: skip-if-exists, one instance.  When the file loop reaches a link    *)
(* whose destination exists, the step issues no request and leaves the     *)
(* file system as it is; and a file that exists is never changed again,    *)
(* by this run or a later one, once the download that created it is over.  *)
(***************************************************************************)
C2_SkipIfExists ==
    [][ /\ \A p \in Procs :
             AtExistingDestination(p) =>
                 /\ requests' = requests
                 /\ fs' = fs
                 /\ pc'[p] = "file"
                 /\ fi'[p] = fi[p] + 1
        /\ \A path \in DOMAIN fs :
             ~BeingWritten(path) => (path \in DOMAIN fs' /\ fs'[path] = fs[path])
      ]_vars

\* the program runs for the second time and has skipped a link whose file
\* an earlier run left incomplete
C2_Witness ==
    \E p \in Procs :
        /\ runs[p] = 2
        /\ \E i \in 1..Len(results[p]) :
             /\ results[p][i].out = "skipped"
             /\ results[p][i].dst \in DOMAIN fs
             /\ fs[results[p][i].dst] # Body(results[p][i].url)

\* no date is found on the meeting's page
Undatable(meeting_id) == parse_meeting_date(pages[meeting_id]) = <<>>

\* the <<meeting id, year, filename>> built so far in this run
Built(p) ==
    {<<results[p][i].meeting, results[p][i].dst[2], results[p][i].dst[3]>> :
        i \in 1..Len(results[p])}
    \cup (IF pc[p] \in {"get", "open", "stream", "sleep"}
          THEN {<<CurMeeting(p), yr[p], Dst(p)[3]>>} ELSE {})

(***************************************************************************)
(* C6: when no date is found for a meeting, every filename built for it    *)
(* begins with id<meeting_id>_ , and no file of another meeting of the     *)
(* year run gets the same filename as a file of that meeting.              *)
(***************************************************************************)
C6_FallbackNamesUniquePerMeeting ==
    \A p \in Procs :
        \A b \in Built(p) :
            Undatable(b[1]) =>
                /\ IsPrefix(<<"id">> \o Str(b[1]) \o <<"_">>, b[3])
                /\ \A c \in Built(p) : (c[1] # b[1] /\ c[2] = b[2]) => c[3] # b[3]

\* two meetings without a date, each with a file of the same type and
\* extension built in the same year run
C6_Witness ==
    \E p \in Procs :
        \E b, c \in Built(p) :
            /\ b[1] = 5 /\ c[1] = 51 /\ b[2] = c[2]
            /\ Undatable(5) /\ Undatable(51)
            /\ SubSeq(b[3], Len(b[3]) - 2, Len(b[3])) = SubSeq(c[3], Len(c[3]) - 2, Len(c[3]))


\* a meeting page has been loaded and its links are being worked through
InFileLoop(p) == pc[p] \in {"file", "get", "open", "stream", "sleep"}

\* a relative href written out as an absolute URL of the site
Absolute(href) ==
    IF Len(href) > 0 /\ href[1] \in HttpTokens THEN href
    ELSE IF Len(href) > 0 /\ href[1] = "/" THEN BASE_URL \o href
    ELSE BASE_URL \o <<"/">> \o href

\* the links of the current meeting for which a download was requested
Requested(p) ==
    {results[p][k].i : k \in {n \in 1..Len(results[p]) :
                                 /\ results[p][n].meeting = CurMeeting(p)
                                 /\ results[p][n].dst[2] = yr[p]
                                 /\ results[p][n].net # NoRequest}}
    \cup (IF pc[p] \in {"open", "stream", "sleep"} THEN {fi[p]} ELSE {})

RuleType(url) ==
    LET low == Lower(url)
        path == BeforeQuery(low)
        query == QueryOf(low)
    IN IF EndsWithExtension(path)
       THEN (IF Contains(path, Seg("agenda")) THEN "agenda"
             ELSE IF Contains(path, Seg("minutes")) THEN "minutes"
             ELSE IF Contains(path, Seg("packet")) THEN "packet"
             ELSE "other")
       ELSE IF Contains(path, ViewSeg("agenda"))
       THEN (IF "packet=true" \in Range(query) THEN "packet" ELSE "agenda")
       ELSE IF Contains(path, ViewSeg("minutes")) THEN "minutes"
       ELSE IF Contains(path, ViewSeg("packet")) THEN "packet"
       ELSE "discard"

(***************************************************************************)
(* C5: extract_file_links classifies every hyperlink URL, with or without  *)
(* a query string, by the ordered rules: (1) the path, the part before any *)
(* query string, ends with a document extension: the first of agenda,      *)
(* minutes, packet whose segment occurs, else other; (2) the path contains *)
(* /viewfile/agenda/: packet when the query string contains packet=true,   *)
(* else agenda; (3) /viewfile/minutes/ gives minutes, /viewfile/packet/    *)
(* gives packet; (4) otherwise the link is discarded.                      *)
(***************************************************************************)
C5_ClassifiedByTheOrderedRules ==
    \A p \in Procs :
        InFileLoop(p) =>
            LET links == pages[CurMeeting(p)].links
            IN Range(file_links[p]) =
                   {<<absolute_url(links[i]), RuleType(absolute_url(links[i]))>> :
                       i \in {k \in 1..Len(links) : RuleType(absolute_url(links[k])) # "discard"}}

\* the links a run has settled, and what became of one of them
Keys(p) == {<<results[p][k].meeting, results[p][k].i>> : k \in 1..Len(results[p])}
At(p, key) ==
    results[p][CHOOSE k \in 1..Len(results[p]) :
                   <<results[p][k].meeting, results[p][k].i>> = key]

\* both runs met the same transport outcome at the link, where both asked
SameTransport(key) ==
    \/ At(1, key).net = NoRequest
    \/ At(2, key).net = NoRequest
    \/ At(1, key).net = At(2, key).net

(***************************************************************************)
(* C3: a file's failure has no effect on its siblings.  Two runs of the    *)
(* same year on the same site, each from an empty output root, that load   *)
(* the same meeting pages and differ in the transport outcome of one link  *)
(* L only, which one run saved and the other failed to download, give      *)
(* every other link the same outcome.                                      *)
(***************************************************************************)
C3_SiblingsUnaffectedByFailure ==
    (Procs = {1, 2} /\ pc[1] = "done" /\ pc[2] = "done" /\ Keys(1) = Keys(2)) =>
        \A L \in Keys(1) :
            ( /\ At(1, L).out = "saved"
              /\ At(2, L).out = "failed"
              /\ \A j \in Keys(1) \ {L} : SameTransport(j) )
            => \A j \in Keys(1) \ {L} : At(1, j).out = At(2, j).out

(***************************************************************************)
(* C10: two instances on one output root never corrupt a file: once both   *)
(* have terminated, every destination that some instance downloaded to     *)
(* completion holds the complete content.                                  *)
(***************************************************************************)
C10_ConcurrentRunsNeverCorrupt ==
    (\A p \in Procs : Terminated(p)) =>
        \A p \in Procs :
            \A k \in 1..Len(results[p]) :
                results[p][k].out = "saved" =>
                    /\ results[p][k].dst \in DOMAIN fs
                    /\ fs[results[p][k].dst] = Body(results[p][k].url)

====
